---- MODULE Spec2Model ----
(***************************************************************************)
(* Model of the bouquet production line of src/src/main.rs and             *)
(* src/src/size.rs: designs are parsed and normalised (Design::from_str),  *)
(* registered per size class (Warehouse::add_design,                       *)
(* ProductionLine::add_design), the per-species design lists are sorted    *)
(* once (preprocess) and stems then arrive one at a time (add_stem).       *)
(*                                                                         *)
(* A species vector (u16x32) is a function Species -> 0..U16Max; lanes     *)
(* 26..31 are never written by the program and are left out.  The fixed    *)
(* arrays designs[26] and designs_per_stem[26][26] with their usize::MAX   *)
(* sentinels are modelled by their filled prefix, a sequence.              *)
(***************************************************************************)
EXTENDS Integers, Sequences, FiniteSets, TLC

\* ---------------------------------------------------------------- bounds
\* species lanes modelled (the program has 26)
NumSpecies == 3
\* a single design line registered into an empty warehouse
MaxRawMax == 3
MaxTotal == 5
\* a whole run of main
MaxDesigns == 2
MaxLineMax == 2
MaxTotals == 4
MaxOnHand == 5
\* a run of two copies of main on the same input
MaxArrivals == 5
MaxSingleMax == 3

\* ------------------------------------------------------ program constants
U16Max == 65535
U16Mod == U16Max + 1

Species == 0 .. (NumSpecies - 1)
Sizes == {"S", "L"}
Names == {"A"}

Min(a, b) == IF a < b THEN a ELSE b
Max(a, b) == IF a > b THEN a ELSE b

\* u16x32::splat
splat(v) == [s \in Species |-> v]

RECURSIVE SumUpTo(_, _)
SumUpTo(v, n) == IF n = 0 THEN 0 ELSE v[n - 1] + SumUpTo(v, n - 1)

\* u16x32::reduce_sum: a wrapping horizontal sum
reduce_sum(v) == SumUpTo(v, NumSpecies) % U16Mod

\* a grab that takes the design's maxima whatever is on hand
simd_min_takes_rhs(a, b) == [s \in Species |-> b[s]]

simd_min(a, b) == [s \in Species |-> Min(a[s], b[s])]

\* simd_lt(...).any()
simd_lt_any(a, b) == \E s \in Species : a[s] < b[s]

\* a subtraction that empties every lane it takes from
simd_sub_clears(a, b) == [s \in Species |-> IF b[s] > 0 THEN 0 ELSE a[s]]

\* lane-wise wrapping subtraction of u16x32
simd_sub(a, b) == [s \in Species |-> (U16Mod + a[s] - b[s]) % U16Mod]

\* ------------------------------------------------------------ raw designs
\* A design line after the regular expressions: the (max, species) captures
\* in order, and the total.  A line names a species at most once (from_str
\* takes its captures for unique species: unique_stem_count).
StemSeqs(maxes) ==
    LET pairs == [species : Species, max : maxes]
        seqs == UNION {[1 .. n -> pairs] : n \in 0 .. NumSpecies}
    IN  {q \in seqs : \A i, j \in DOMAIN q : i # j => q[i].species # q[j].species}

RawDesigns == [name : Names, size : Sizes, stems : StemSeqs(0 .. MaxRawMax), total : 0 .. MaxTotal]
\* the design lines of a run: positive counts, total at most t
DesignLines(t) == [name : Names, size : Sizes, stems : StemSeqs(1 .. MaxLineMax), total : 0 .. t]

\* the design lines of two copies: those, and the lines that name a single
\* species with a count up to MaxSingleMax
TwinLines(t) ==
    DesignLines(t) \cup
        [name : Names, size : Sizes,
         stems : {q \in StemSeqs(1 .. MaxSingleMax) : Len(q) = 1}, total : 0 .. t]

\* the capture loop of from_str: every match sets min to 1 and max to the
\* parsed number, a later match of the same species overwriting an earlier
RECURSIVE RawMin(_, _)
RawMin(stems, n) ==
    IF n = 0 THEN splat(0)
    ELSE [RawMin(stems, n - 1) EXCEPT ![stems[n].species] = 1]

RECURSIVE RawMax(_, _)
RawMax(stems, n) ==
    IF n = 0 THEN splat(0)
    ELSE [RawMax(stems, n - 1) EXCEPT ![stems[n].species] = stems[n].max]

\* a cap that reserves no stem for the other species: total - count
CapValueNoReserve(total, count) == (U16Mod + total - count) % U16Mod

\* 1 + total - unique_stem_count in u16; unique_stem_count counts matches
CapOverflows(total, count) == (1 + total > U16Max) \/ ((1 + total) % U16Mod < count)
CapValue(total, count) == (U16Mod + ((1 + total) % U16Mod) - count) % U16Mod

CapPass(max_stems, cap) == [s \in Species |-> Min(max_stems[s], cap)]

\* sum_max - stem_max in u16
OthersOverflows(max_stems) ==
    \E s \in Species : max_stems[s] # 0 /\ reduce_sum(max_stems) < max_stems[s]
Others(max_stems, s) == (U16Mod + reduce_sum(max_stems) - max_stems[s]) % U16Mod

\* a min pass that leaves the minima of the capture loop
MinPassKeepsOne(min_stems, max_stems) == min_stems

MinPass(min_stems, max_stems) ==
    [s \in Species |->
        IF max_stems[s] = 0 THEN min_stems[s]
        ELSE Max(1, max_stems[s] - Min(max_stems[s], Others(max_stems, s)))]

\* a from_str that computes the minima before it caps the maxima
from_str_min_first(raw) ==
    LET count == Len(raw.stems)
        max0 == RawMax(raw.stems, count)
        min0 == RawMin(raw.stems, count)
    IN  [name |-> raw.name, size |-> raw.size, total |-> raw.total,
         min_stems |-> MinPass(min0, max0),
         max_stems |-> CapPass(max0, CapValue(raw.total, count))]

\* Design::from_str after the regular expressions have matched
from_str(raw) ==
    LET count == Len(raw.stems)
        max0 == RawMax(raw.stems, count)
        min0 == RawMin(raw.stems, count)
        max1 == CapPass(max0, CapValue(raw.total, count))
    IN  [name |-> raw.name, size |-> raw.size, total |-> raw.total,
         min_stems |-> MinPass(min0, max1), max_stems |-> max1]

\* an arithmetic overflow in from_str: a panic with overflow checks, a
\* wrapped value without
from_str_overflows(raw) ==
    LET count == Len(raw.stems)
    IN  \/ CapOverflows(raw.total, count)
        \/ OthersOverflows(CapPass(RawMax(raw.stems, count), CapValue(raw.total, count)))

\* an add_design that pushes every design
PossibleAlways(design) == TRUE

\* Warehouse::add_design: "Only push possible designs"
Possible(design) == design.total >= reduce_sum(design.min_stems)

\* ------------------------------------------------------- production line
DefaultLine ==
    [stems |-> splat(0), designs |-> <<>>, add_design_index |-> 0,
     designs_per_stem |-> [s \in Species |-> <<>>],
     max_per_stem |-> splat(0)]

\* a registration whose watermark is the last design's maximum
LineAddDesignLastMax(line, design) ==
    [line EXCEPT
        !.max_per_stem = [s \in Species |->
            IF design.max_stems[s] # 0 THEN design.max_stems[s] ELSE @[s]],
        !.designs_per_stem = [s \in Species |->
            IF design.max_stems[s] # 0 THEN Append(@[s], line.add_design_index + 1) ELSE @[s]],
        !.designs = Append(@, design),
        !.add_design_index = @ + 1]

\* ProductionLine::add_design (design indices are 1-based here:
\* index i of the program is i + 1)
LineAddDesign(line, design) ==
    [line EXCEPT
        !.max_per_stem = [s \in Species |->
            IF design.max_stems[s] # 0 THEN Max(@[s], design.max_stems[s]) ELSE @[s]],
        !.designs_per_stem = [s \in Species |->
            IF design.max_stems[s] # 0 THEN Append(@[s], line.add_design_index + 1) ELSE @[s]],
        !.designs = Append(@, design),
        !.add_design_index = @ + 1]

\* the stable sort_by_key of preprocess, as an insertion sort
RECURSIVE InsertByTotal(_, _, _)
InsertByTotal(x, sorted, designs) ==
    IF sorted = <<>> THEN <<x>>
    ELSE IF designs[sorted[Len(sorted)]].total <= designs[x].total
         THEN Append(sorted, x)
         ELSE Append(InsertByTotal(x, SubSeq(sorted, 1, Len(sorted) - 1), designs),
                     sorted[Len(sorted)])

RECURSIVE SortByTotal(_, _, _)
SortByTotal(list, n, designs) ==
    IF n = 0 THEN <<>>
    ELSE InsertByTotal(list[n], SortByTotal(list, n - 1, designs), designs)

\* a preprocess that leaves the lists in registration order
LinePreprocessUnsorted(line) == line

LinePreprocess(line) ==
    [line EXCEPT !.designs_per_stem = [s \in Species |->
        SortByTotal(@[s], Len(@[s]), line.designs)]]

\* an excess-return loop that leaves at the first species without room
RECURSIVE ReturnExcessBreaks(_, _, _, _)
ReturnExcessBreaks(grabbed, min_stems, excess, i) ==
    IF i = NumSpecies \/ excess = 0 THEN grabbed
    ELSE LET stem_amount == (U16Mod + grabbed[i] - min_stems[i]) % U16Mod
             return_amount == Min(excess, stem_amount)
         IN  IF stem_amount = 0 THEN grabbed
             ELSE ReturnExcessBreaks([grabbed EXCEPT ![i] = @ - return_amount],
                                     min_stems, excess - return_amount, i + 1)

\* an excess-return loop that gives back below the design's minima
RECURSIVE ReturnExcessBelowMin(_, _, _, _)
ReturnExcessBelowMin(grabbed, min_stems, excess, i) ==
    IF i = NumSpecies \/ excess = 0 THEN grabbed
    ELSE LET return_amount == Min(excess, grabbed[i])
         IN  ReturnExcessBelowMin([grabbed EXCEPT ![i] = @ - return_amount],
                                  min_stems, excess - return_amount, i + 1)

\* an excess-return loop that runs from the highest species down to i
RECURSIVE ReturnExcessFromTop(_, _, _, _)
ReturnExcessFromTop(grabbed, min_stems, excess, i) ==
    IF i = NumSpecies \/ excess = 0 THEN grabbed
    ELSE LET j == NumSpecies - 1 - i
             stem_amount == (U16Mod + grabbed[j] - min_stems[j]) % U16Mod
             return_amount == Min(excess, stem_amount)
         IN  ReturnExcessFromTop([grabbed EXCEPT ![j] = @ - return_amount],
                                 min_stems, excess - return_amount, i + 1)

\* the excess-return loop of add_stem, from species i upwards
RECURSIVE ReturnExcess(_, _, _, _)
ReturnExcess(grabbed, min_stems, excess, i) ==
    IF i = NumSpecies \/ excess = 0 THEN grabbed
    ELSE LET stem_amount == (U16Mod + grabbed[i] - min_stems[i]) % U16Mod
             return_amount == Min(excess, stem_amount)
         IN  ReturnExcess([grabbed EXCEPT ![i] = @ - return_amount],
                          min_stems, excess - return_amount, i + 1)

\* a scan that tests the total only
SatisfiableByTotal(stock, design) ==
    ~(reduce_sum(simd_min(stock, design.max_stems)) < design.total)

\* the two tests of the scan loop for one design against a stock vector
Satisfiable(stock, design) ==
    LET grabbed == simd_min(stock, design.max_stems)
    IN  /\ ~(reduce_sum(grabbed) < design.total)
        /\ ~simd_lt_any(grabbed, design.min_stems)

\* what is withdrawn for a design that passed the tests
Grab(stock, design) ==
    LET grabbed == simd_min(stock, design.max_stems)
    IN  ReturnExcess(grabbed, design.min_stems,
                     reduce_sum(grabbed) - design.total, 0)

\* a scan that stops at the first design that does not pass
FirstMatchOrStop(list, designs, stock, i) ==
    IF i > Len(list) THEN 0
    ELSE IF Satisfiable(stock, designs[list[i]]) THEN i ELSE 0

\* the scan of designs_per_stem[stem_index]: the position in the list of
\* the first design that passes, 0 when none does
RECURSIVE FirstMatch(_, _, _, _)
FirstMatch(list, designs, stock, i) ==
    IF i > Len(list) THEN 0
    ELSE IF Satisfiable(stock, designs[list[i]]) THEN i
         ELSE FirstMatch(list, designs, stock, i + 1)

\* the watermark test at the head of add_stem
OverWatermark(line, stock, stem_index) == stock[stem_index] > line.max_per_stem[stem_index]

\* the for loop of add_stem: the design matched, 0 for none
ScanMatch(line, stock, stem_index) ==
    LET list == line.designs_per_stem[stem_index]
        pos == FirstMatch(list, line.designs, stock, 1)
    IN  IF pos = 0 THEN 0 ELSE list[pos]

\* ProductionLine::add_stem: the design matched, 0 for none
AddStemMatch(line, stem_index) ==
    LET stock == [line.stems EXCEPT ![stem_index] = @ + 1]
    IN  IF OverWatermark(line, stock, stem_index) THEN 0
        ELSE ScanMatch(line, stock, stem_index)

\* an add_stem that forgets a stem it could not use
LineAddStemDropsUnmatched(line, stem_index) ==
    LET stock == [line.stems EXCEPT ![stem_index] = @ + 1]
        matched == AddStemMatch(line, stem_index)
    IN  IF matched = 0 THEN line
        ELSE [line EXCEPT !.stems = simd_sub(stock, Grab(stock, line.designs[matched]))]

LineAddStem(line, stem_index) ==
    LET stock == [line.stems EXCEPT ![stem_index] = @ + 1]
        matched == AddStemMatch(line, stem_index)
    IN  IF matched = 0 THEN [line EXCEPT !.stems = stock]
        ELSE [line EXCEPT !.stems = simd_sub(stock, Grab(stock, line.designs[matched]))]

\* -------------------------------------------------------------- warehouse
NoBundle == [name |-> "", size |-> "", amounts |-> splat(0)]

\* a size map whose small line answers for both sizes
get_mut_small(production_lines, size) == production_lines["S"]

\* SizeMap::get_mut
get_mut(production_lines, size) == production_lines[size]

\* Warehouse::add_design once from_str has returned
add_design(production_lines, raw) ==
    LET design == from_str(raw)
    IN  IF Possible(design)
        THEN [production_lines EXCEPT
                 ![design.size] = LineAddDesign(get_mut(production_lines, design.size), design)]
        ELSE production_lines

\* Warehouse::preprocess
preprocess(production_lines) == [z \in Sizes |-> LinePreprocess(production_lines[z])]

\* Warehouse::add_stem: the lines after the call
add_stem(production_lines, stem_index, size) ==
    [production_lines EXCEPT ![size] = LineAddStem(get_mut(production_lines, size), stem_index)]

\* Warehouse::add_stem: the line written to stdout, NoBundle for none
written(production_lines, stem_index, size) ==
    LET line == get_mut(production_lines, size)
        stock == [line.stems EXCEPT ![stem_index] = @ + 1]
        matched == AddStemMatch(line, stem_index)
    IN  IF matched = 0 THEN NoBundle
        ELSE [name |-> line.designs[matched].name,
              size |-> line.designs[matched].size,
              amounts |-> Grab(stock, line.designs[matched])]

\* ------------------------------------------------------------------ state
VARIABLES
    phase,      \* position of main: "build", "stream" or "panicked"
    lines,      \* Warehouse.production_lines: one ProductionLine per size
    emitted,    \* the line written to stdout by the last call, or NoBundle
    last,       \* the last call: its operation and, when it emitted a
                \* bundle, the stem it was given, the design it matched and
                \* the stock it matched against
    probe,      \* the design line read, when a single line is studied
    tally,      \* per size and species, the stems that arrived and the stems
                \* that left in bundles, when two copies are studied
    twin        \* a second copy of the program given the same input

vars == <<phase, lines, emitted, last, probe, tally, twin>>

NoProbe == [name |-> "", size |-> "", stems |-> <<>>, total |-> 0]
NoTally == [arrived |-> [z \in Sizes |-> splat(0)], bundled |-> [z \in Sizes |-> splat(0)]]
NoTwin == [phase |-> "build", lines |-> [z \in Sizes |-> DefaultLine], emitted |-> NoBundle]
NoCall == [op |-> "new", stem_index |-> 0, size |-> "", matched |-> 0, stock |-> splat(0)]

RECURSIVE SumTotals(_, _)
SumTotals(designs, n) == IF n = 0 THEN 0 ELSE designs[n].total + SumTotals(designs, n - 1)

\* what the bounds of a run still allow
DesignsPushed == lines["S"].add_design_index + lines["L"].add_design_index
TotalsPushed ==
    SumTotals(lines["S"].designs, Len(lines["S"].designs))
        + SumTotals(lines["L"].designs, Len(lines["L"].designs))
OnHand == SumUpTo(lines["S"].stems, NumSpecies) + SumUpTo(lines["L"].stems, NumSpecies)

Init ==
    /\ phase = "build"
    /\ lines = [z \in Sizes |-> DefaultLine]
    /\ emitted = NoBundle
    /\ last = NoCall
    /\ probe = NoProbe
    /\ tally = NoTally
    /\ twin = NoTwin

\* Warehouse::add_design on a design line that parses without overflow, or
\* whose overflow wraps
AddDesign(raw) ==
    /\ phase = "build"
    /\ lines' = add_design(lines, raw)
    /\ last' = [NoCall EXCEPT !.op = IF Possible(from_str(raw)) THEN "pushed" ELSE "dropped"]
    /\ UNCHANGED <<phase, emitted, probe>>

\* Warehouse::add_design on a design line whose arithmetic overflows, in a
\* build with overflow checks: the process panics
AddDesignPanics(raw) ==
    /\ phase = "build"
    /\ from_str_overflows(raw)
    /\ phase' = "panicked"
    /\ last' = [NoCall EXCEPT !.op = "panic"]
    /\ UNCHANGED <<lines, emitted, probe>>

\* Warehouse::preprocess, called by main once the design lines are read
Preprocess ==
    /\ phase = "build"
    /\ phase' = "stream"
    /\ lines' = preprocess(lines)
    /\ last' = [NoCall EXCEPT !.op = "preprocess"]
    /\ UNCHANGED <<emitted, probe>>

\* Warehouse::add_stem
AddStem(stem_index, size) ==
    /\ phase = "stream"
    /\ OnHand < MaxOnHand
    /\ lines' = add_stem(lines, stem_index, size)
    /\ emitted' = written(lines, stem_index, size)
    /\ LET line == get_mut(lines, size)
           stock == [line.stems EXCEPT ![stem_index] = @ + 1]
           matched == AddStemMatch(line, stem_index)
       IN  last' = IF matched = 0 THEN [NoCall EXCEPT !.op = "add_stem"]
                      ELSE [op |-> "add_stem", stem_index |-> stem_index, size |-> size,
                            matched |-> matched, stock |-> stock]
    /\ UNCHANGED <<phase, probe>>

\* main: design lines until the empty line, preprocess, then stem lines
ReadDesigns ==
    /\ phase = "build"
    /\ DesignsPushed < MaxDesigns
    /\ \E raw \in DesignLines(MaxTotals - TotalsPushed) :
            AddDesign(raw) \/ AddDesignPanics(raw)
    /\ UNCHANGED <<tally, twin>>

\* the empty line that ends the design lines
EndDesigns == Preprocess /\ UNCHANGED <<tally, twin>>

ReadStems ==
    /\ phase = "stream"
    /\ \E stem_index \in Species, size \in Sizes : AddStem(stem_index, size)
    /\ UNCHANGED <<tally, twin>>

Next == ReadDesigns \/ EndDesigns \/ ReadStems

Spec == Init /\ [][Next]_vars

\* ------------------------------------------- one design line on its own
InitLine ==
    /\ phase = "build"
    /\ lines = [z \in Sizes |-> DefaultLine]
    /\ emitted = NoBundle
    /\ last = NoCall
    /\ probe \in RawDesigns
    /\ tally = NoTally
    /\ twin = NoTwin

ReadLine ==
    /\ last = NoCall
    /\ (AddDesign(probe) \/ AddDesignPanics(probe))
    /\ UNCHANGED <<tally, twin>>

NextLine == ReadLine

SpecLine == InitLine /\ [][NextLine]_vars

\* ------------------------------- two copies of main on the same input
\* the orders slice::sort_by_key may leave a list in if it were not stable:
\* ascending keys, equal keys in any order
sort_unstable_by_key(list, designs) ==
    {q \in [1 .. Len(list) -> {list[k] : k \in 1 .. Len(list)}] :
        /\ \A x \in 1 .. Len(list) : \E k \in 1 .. Len(q) : q[k] = list[x]
        /\ \A i, j \in 1 .. Len(q) : i < j => designs[q[i]].total <= designs[q[j]].total}

\* the orders the contract of slice::sort_by_key allows: ascending keys,
\* equal keys in the order they had
sort_by_key(list, designs) ==
    {q \in [1 .. Len(list) -> {list[k] : k \in 1 .. Len(list)}] :
        /\ \A x \in 1 .. Len(list) : \E k \in 1 .. Len(q) : q[k] = list[x]
        /\ \A i, j \in 1 .. Len(q) : i < j =>
              \/ designs[q[i]].total < designs[q[j]].total
              \/ /\ designs[q[i]].total = designs[q[j]].total
                 /\ \E a, b \in 1 .. Len(list) : a < b /\ list[a] = q[i] /\ list[b] = q[j]}

\* ProductionLine::preprocess, by the contract of the sort alone
LineSorted(line) ==
    LET orders == UNION {sort_by_key(line.designs_per_stem[s], line.designs) : s \in Species}
    IN  {[line EXCEPT !.designs_per_stem = f] :
            f \in {g \in [Species -> orders] :
                     \A s \in Species :
                        g[s] \in sort_by_key(line.designs_per_stem[s], line.designs)}}

Arrivals ==
    SumUpTo(tally.arrived["S"], NumSpecies) + SumUpTo(tally.arrived["L"], NumSpecies)

TwinReadDesigns ==
    /\ phase = "build"
    /\ DesignsPushed < MaxDesigns
    /\ \E raw \in TwinLines(MaxTotals - TotalsPushed) :
          \/ AddDesign(raw) /\ twin' = [twin EXCEPT !.lines = add_design(@, raw)]
          \/ AddDesignPanics(raw) /\ twin' = [twin EXCEPT !.phase = "panicked"]
    /\ UNCHANGED tally

TwinEndDesigns ==
    /\ Preprocess
    /\ \E small \in LineSorted(twin.lines["S"]), large \in LineSorted(twin.lines["L"]) :
          twin' = [twin EXCEPT !.phase = "stream", !.lines = [S |-> small, L |-> large]]
    /\ UNCHANGED tally

TwinReadStems ==
    /\ phase = "stream"
    /\ Arrivals < MaxArrivals
    /\ \E stem_index \in Species, size \in Sizes :
          /\ AddStem(stem_index, size)
          /\ twin' = [twin EXCEPT !.lines = add_stem(@, stem_index, size),
                                  !.emitted = written(twin.lines, stem_index, size)]
          /\ tally' =
                LET out == written(lines, stem_index, size)
                    came == [tally.arrived EXCEPT ![size][stem_index] = @ + 1]
                IN  IF out = NoBundle THEN [tally EXCEPT !.arrived = came]
                    ELSE [arrived |-> came,
                          bundled |-> [tally.bundled EXCEPT ![out.size] =
                                          [s \in Species |-> @[s] + out.amounts[s]]]]

NextTwin == TwinReadDesigns \/ TwinEndDesigns \/ TwinReadStems

SpecTwin == Init /\ [][NextTwin]_vars

\* ----------------------------------------------------------- properties
\* the last call was an add_stem that emitted a bundle
Matched == last.op = "add_stem" /\ last.matched # 0
\* the design that bundle is for
MatchedDesign == lines[emitted.size].designs[last.matched]
\* what the scan grabbed before any excess was returned
MatchedGrabbed == simd_min(last.stock, MatchedDesign.max_stems)
\* the design names at least one species
NamesSpecies(design) == \E s \in Species : design.min_stems[s] > 0

\* C1: every emitted bundle holds exactly the required total of the design
\* it is for: the excess-return loop leaves no remainder.
C1_Conservation ==
    Matched => SumUpTo(emitted.amounts, NumSpecies) = MatchedDesign.total

\* a bundle was emitted after excess had to be returned, and the first
\* species had no room to give any back
C1_Witness ==
    /\ Matched
    /\ reduce_sum(MatchedGrabbed) > MatchedDesign.total
    /\ MatchedGrabbed[0] = MatchedDesign.min_stems[0]
    /\ MatchedDesign.min_stems[0] > 0

\* C2: every count of an emitted bundle lies within the normalised bounds
\* of the design it is for, and a species absent from the bundle has a
\* minimum of 0 in that design.
C2_BoundsRespected ==
    Matched =>
        \A s \in Species :
            /\ MatchedDesign.min_stems[s] <= emitted.amounts[s]
            /\ emitted.amounts[s] <= MatchedDesign.max_stems[s]
            /\ (emitted.amounts[s] = 0 => MatchedDesign.min_stems[s] = 0)

\* a bundle that holds less of one species than was grabbed and more than
\* one stem, its maximum, of another, with stems left on hand
C2_Witness ==
    /\ Matched
    /\ \E s \in Species : emitted.amounts[s] < MatchedGrabbed[s]
    /\ \E s \in Species : emitted.amounts[s] = MatchedDesign.max_stems[s] /\ emitted.amounts[s] > 1
    /\ lines[emitted.size].stems # splat(0)

\* C3: what a match withdraws is at most what is on hand after the
\* arrival's increment, lane by lane, so that stems -= grabbed never wraps
\* and the stock left is the exact difference.
C3_NoUnderflow ==
    Matched =>
        \A s \in Species :
            /\ emitted.amounts[s] <= last.stock[s]
            /\ lines[emitted.size].stems[s] = last.stock[s] - emitted.amounts[s]

\* a match that withdraws less than is on hand of one species and all that
\* is on hand of another
C3_Witness ==
    /\ Matched
    /\ \E s \in Species : emitted.amounts[s] > 0 /\ emitted.amounts[s] < last.stock[s]
    /\ \E s \in Species : emitted.amounts[s] > 0 /\ emitted.amounts[s] = last.stock[s]

\* the designs of the matched size class that pass the tests of the scan
\* on the stock the match was made against
AlsoSatisfiable ==
    {j \in 1 .. Len(lines[emitted.size].designs) :
        Satisfiable(last.stock, lines[emitted.size].designs[j])}

\* the matched design comes before design j: a smaller total, or the same
\* total and registered no later
Before(j) ==
    LET other == lines[emitted.size].designs[j]
    IN  \/ MatchedDesign.total < other.total
        \/ MatchedDesign.total = other.total /\ last.matched <= j

\* C4 as stated: the bundle emitted is for the first, by total and then by
\* registration, of all the designs of the size class that are satisfiable
\* at the arrival.
C4_PriorityAmongAll == Matched => \A j \in AlsoSatisfiable : Before(j)

\* C4 amended: the bundle emitted is for the first, by total and then by
\* registration, of the satisfiable designs of the size class that name at
\* least one species, whether or not they name the arriving species.
C4_Priority ==
    Matched =>
        \A j \in AlsoSatisfiable :
            NamesSpecies(lines[emitted.size].designs[j]) => Before(j)

\* two designs that name species were satisfiable at the arrival, and the
\* one matched was registered after the other, which has the larger total
C4_Witness ==
    /\ Matched
    /\ \E j \in AlsoSatisfiable :
          /\ j < last.matched
          /\ NamesSpecies(lines[emitted.size].designs[j])
          /\ lines[emitted.size].designs[j].total > MatchedDesign.total

\* C5: once an arrival has been processed, no accepted design that names a
\* species passes the tests of the scan on the stock of its size class.
C5_NoneLeftSatisfiable ==
    phase = "stream" =>
        \A z \in Sizes : \A j \in 1 .. Len(lines[z].designs) :
            NamesSpecies(lines[z].designs[j]) =>
                ~Satisfiable(lines[z].stems, lines[z].designs[j])

\* a match was made while a second design of the size class was satisfiable
\* too, and stems are left on hand after the withdrawal
C5_Witness ==
    /\ Matched
    /\ \E j \in AlsoSatisfiable :
          j # last.matched /\ NamesSpecies(lines[emitted.size].designs[j])
    /\ lines[emitted.size].stems # splat(0)

\* C6: at every point of the stream and for every possible next arrival,
\* add_stem with the watermark test matches the design that the scan alone
\* would match: dropping the early return changes no bundle and no stock.
C6_WatermarkIsPure ==
    phase = "stream" =>
        \A z \in Sizes : \A s \in Species :
            AddStemMatch(lines[z], s)
                = ScanMatch(lines[z], [lines[z].stems EXCEPT ![s] = @ + 1], s)

\* an arrival took the early return although designs name its species: the
\* stock of a species is above a positive watermark
C6_Witness ==
    /\ last.op = "add_stem"
    /\ \E z \in Sizes : \E s \in Species :
          /\ lines[z].max_per_stem[s] > 0
          /\ lines[z].stems[s] > lines[z].max_per_stem[s]
          /\ Len(lines[z].designs_per_stem[s]) = 2

\* C7: every accepted design has a total of at most the sum of its
\* normalised maxima.
C7_TotalWithinMaxima ==
    \A z \in Sizes : \A j \in 1 .. Len(lines[z].designs) :
        lines[z].designs[j].total <= reduce_sum(lines[z].designs[j].max_stems)

\* ------------------------------------- properties of one design line
\* Warehouse::add_design has returned for the design line read
LineRead == last.op \in {"pushed", "dropped"}

RawNamed(raw) == {raw.stems[i].species : i \in DOMAIN raw.stems}

\* the count vectors a bundle can be
Vectors == [Species -> 0 .. MaxRawMax]

\* the bundles valid under the raw bounds of a design line: at least 1 and
\* at most the raw maximum of every named species, nothing of the others
RawBundles(raw) ==
    {b \in Vectors :
        /\ SumUpTo(b, NumSpecies) = raw.total
        /\ \A s \in Species :
              IF s \in RawNamed(raw)
              THEN 1 <= b[s] /\ b[s] <= RawMax(raw.stems, Len(raw.stems))[s]
              ELSE b[s] = 0}

\* the bundles valid under the normalised bounds of a design
DesignBundles(design) ==
    {b \in Vectors :
        /\ SumUpTo(b, NumSpecies) = design.total
        /\ \A s \in Species :
              design.min_stems[s] <= b[s] /\ b[s] <= design.max_stems[s]}

\* the cap pass lowered a maximum of the design line read
CapLowered ==
    \E s \in Species :
        from_str(probe).max_stems[s] < RawMax(probe.stems, Len(probe.stems))[s]
\* the min pass raised a minimum of the design line read above 1
MinRaised == \E s \in Species : from_str(probe).min_stems[s] > 1

\* the step reads the design line
ReadsLine == last.op = "new" /\ last'.op # "new"

\* C8: registering a design line whose total is below the sum of its
\* normalised minima is a silent no-op: warehouse, output and the run of
\* main are as before, and the line has no valid bundle under its raw
\* bounds.
C8_SilentDrop ==
    [][(ReadsLine /\ ~Possible(from_str(probe))) =>
          /\ lines' = lines
          /\ emitted' = emitted
          /\ phase' = phase
          /\ RawBundles(probe) = {}]_vars

\* C8 for the calls that return: a dropped design line changes neither
\* warehouse nor output and has no valid bundle under its raw bounds.
C8_DroppedIsNoOp ==
    [][last'.op = "dropped" =>
          /\ lines' = lines
          /\ emitted' = emitted
          /\ phase' = phase
          /\ RawBundles(probe) = {}]_vars

\* C9: the bundles valid under the normalised bounds of a design are the
\* bundles valid under the raw bounds of its design line.
C9_SameBundles == LineRead => RawBundles(probe) = DesignBundles(from_str(probe))

\* a design line of two or more species was read whose maxima the cap pass
\* lowered and which has two or more valid bundles
C9_Witness ==
    /\ LineRead
    /\ Len(probe.stems) >= 2
    /\ CapLowered
    /\ Cardinality(RawBundles(probe)) >= 2

\* the species a design names, with their normalised maxima, as captures
RECURSIVE NamedPairs(_, _)
NamedPairs(design, s) ==
    IF s = NumSpecies THEN <<>>
    ELSE (IF design.min_stems[s] > 0
          THEN <<[species |-> s, max |-> design.max_stems[s]]>> ELSE <<>>)
            \o NamedPairs(design, s + 1)

\* the design line that gives a design's normalised maxima as raw maxima
AsRaw(design) ==
    [name |-> design.name, size |-> design.size,
     stems |-> NamedPairs(design, 0), total |-> design.total]

\* C10: normalising the normalised maxima of a design again, with the same
\* named species and total, gives the same maxima and minima.
C10_Idempotent ==
    LineRead =>
        /\ from_str(AsRaw(from_str(probe))).max_stems = from_str(probe).max_stems
        /\ from_str(AsRaw(from_str(probe))).min_stems = from_str(probe).min_stems

\* a design line of two or more species with positive counts was pushed
\* whose minima the min pass raised above 1
C10_Witness ==
    /\ last.op = "pushed"
    /\ Len(probe.stems) >= 2
    /\ \A i \in DOMAIN probe.stems : probe.stems[i].max >= 1
    /\ MinRaised

\* --------------------------------------------------- frame of the calls
\* the size class of the design pushed by the step, "" when none was
PushedSize ==
    IF \E z \in Sizes : lines'[z].add_design_index # lines[z].add_design_index
    THEN (CHOOSE z \in Sizes : lines'[z].add_design_index # lines[z].add_design_index)
    ELSE ""

\* C11: a registration or an arrival changes the inventory of at most one
\* size class; a design is pushed into the line of its own size class; and
\* an emitted bundle is taken from, and is for a design of, the size class
\* of the arriving stem.
C11_SizesIndependent ==
    [][last'.op \in {"pushed", "dropped", "panic", "add_stem"} =>
          /\ \E z \in Sizes : \A y \in Sizes \ {z} : lines'[y] = lines[y]
          /\ last'.op = "pushed" =>
                /\ PushedSize \in Sizes
                /\ lines'[PushedSize].designs[Len(lines'[PushedSize].designs)].size = PushedSize
                /\ \A y \in Sizes \ {PushedSize} : lines'[y] = lines[y]
          /\ (last'.op = "add_stem" /\ last'.matched # 0) =>
                /\ emitted'.size = last'.size
                /\ lines'[last'.size].designs[last'.matched].size = last'.size
                /\ \A y \in Sizes \ {last'.size} : lines'[y] = lines[y]]_vars

\* a bundle was emitted for one size class while the other size class has a
\* design that names the arriving species and stems of it on hand
C11_Witness ==
    /\ Matched
    /\ \E y \in Sizes \ {last.size} :
          /\ Len(lines[y].designs_per_stem[last.stem_index]) > 0
          /\ lines[y].stems[last.stem_index] > 0

\* the size class and the species of the stem the step delivers
ArrivedSize == CHOOSE z \in Sizes : tally'.arrived[z] # tally.arrived[z]
ArrivedStem ==
    CHOOSE s \in Species : tally'.arrived[ArrivedSize][s] # tally.arrived[ArrivedSize][s]

\* C12: an arrival leaves designs, indexes and watermarks of both size
\* classes and the stock of the other size class as they were, and either
\* writes nothing and adds one stem of the arriving species to the stock,
\* or writes one bundle and leaves the stock at the previous stock plus the
\* arriving stem minus the bundle, lane by lane.
C12_AllOrNothing ==
    [][last'.op = "add_stem" =>
          LET z == ArrivedSize
              before == [lines[z].stems EXCEPT ![ArrivedStem] = @ + 1]
          IN  /\ \A y \in Sizes :
                    /\ lines'[y].designs = lines[y].designs
                    /\ lines'[y].add_design_index = lines[y].add_design_index
                    /\ lines'[y].designs_per_stem = lines[y].designs_per_stem
                    /\ lines'[y].max_per_stem = lines[y].max_per_stem
              /\ \A y \in Sizes \ {z} : lines'[y].stems = lines[y].stems
              /\ \/ emitted' = NoBundle /\ lines'[z].stems = before
                 \/ /\ emitted' # NoBundle
                    /\ emitted'.name \in Names
                    /\ \A s \in Species :
                          lines'[z].stems[s] = before[s] - emitted'.amounts[s]]_vars

\* an arrival emitted a bundle of two species and left stems on hand, after
\* arrivals that emitted nothing
C12_Witness ==
    /\ Matched
    /\ Cardinality({s \in Species : emitted.amounts[s] > 0}) >= 2
    /\ lines[last.size].stems # splat(0)
    /\ Arrivals > SumUpTo(emitted.amounts, NumSpecies)

\* C13: for every size class and species, the stems that arrived are the
\* stems on hand plus the stems of the bundles emitted so far for that
\* size class.
C13_StemAccounting ==
    \A z \in Sizes : \A s \in Species :
        tally.arrived[z][s] = lines[z].stems[s] + tally.bundled[z][s]

\* two bundles or more have left one size class, the last of two species,
\* and stems are on hand in both size classes
C13_Witness ==
    /\ Matched
    /\ \E s \in Species : s # last.stem_index /\ emitted.amounts[s] > 0
    /\ SumUpTo(tally.bundled[last.size], NumSpecies) > MatchedDesign.total
    /\ \A z \in Sizes : lines[z].stems # splat(0)

\* a design line that names the one species s, with max m and total T
SingleLine(n, z, s, m, T) ==
    [name |-> n, size |-> z, stems |-> <<[species |-> s, max |-> m]>>, total |-> T]

\* the only design accepted for size class z comes from such a line with
\* m >= T >= 1
OnlyDesign(n, z, s, T) ==
    /\ Len(lines[z].designs) = 1
    /\ \E m \in T .. MaxSingleMax : lines[z].designs[1] = from_str(SingleLine(n, z, s, m, T))

\* C14: when the only design accepted for a size class names one species s
\* with raw max >= total T >= 1, its minimum and maximum of s are T, and
\* the k-th arrival of s in that size class writes a bundle of exactly T
\* stems of s and leaves none on hand when k is a multiple of T, and
\* writes nothing and leaves k mod T on hand otherwise.
C14_SingleSpecies ==
    [][last'.op = "add_stem" =>
          LET z == ArrivedSize
              s == ArrivedStem
              k == tally'.arrived[z][s]
              n == lines[z].designs[1].name
              T == lines[z].designs[1].total
          IN  (Len(lines[z].designs) = 1 /\ T >= 1 /\ OnlyDesign(n, z, s, T)) =>
                  /\ lines[z].designs[1].min_stems[s] = T
                  /\ lines[z].designs[1].max_stems[s] = T
                  /\ IF k % T = 0
                     THEN /\ emitted' = [name |-> n, size |-> z,
                                         amounts |-> [splat(0) EXCEPT ![s] = T]]
                          /\ lines'[z].stems[s] = 0
                     ELSE /\ emitted' = NoBundle
                          /\ lines'[z].stems[s] = k % T]_vars

\* the design of two stems of one species has just been bundled for the
\* second time, on the fourth arrival of the species
C14_Witness ==
    /\ Matched
    /\ \E n \in Names : OnlyDesign(n, last.size, last.stem_index, 2)
    /\ tally.arrived[last.size][last.stem_index] = 4
    /\ tally.bundled[last.size][last.stem_index] = 4

\* C15: two copies of the program given the same design lines, the same
\* empty line and the same stems are at the same position of main, have
\* written the same line and hold the same stock after every step, whatever
\* order the sort's contract leaves to the second copy.
C15_Deterministic ==
    /\ twin.phase = phase
    /\ twin.emitted = emitted
    /\ \A z \in Sizes : twin.lines[z].stems = lines[z].stems

\* both copies have bundled the later registered of two designs of equal
\* total that are both listed for the arriving species
C15_Witness ==
    /\ Matched
    /\ twin.emitted = emitted
    /\ last.matched = 2
    /\ Len(lines[last.size].designs_per_stem[last.stem_index]) = 2
    /\ lines[last.size].designs[1].total = lines[last.size].designs[2].total

\* the excess of the last match removed from what was grabbed, species 0
\* first, each species down to its minimum at most
RECURSIVE LowestFirst(_, _, _)
LowestFirst(g, excess, s) ==
    IF s = NumSpecies THEN g
    ELSE LET room == g[s] - MatchedDesign.min_stems[s]
             back == Min(excess, room)
         IN  LowestFirst([g EXCEPT ![s] = @ - back], excess - back, s + 1)

\* C16: in every emitted bundle b, with g the lane-wise minimum of the
\* stock and the design's maxima, no species i below a species j keeps more
\* than its minimum while j gave back; b is g with the excess removed from
\* species 0, 1, 2, ... in order.
C16_LowestIndexFirst ==
    Matched =>
        /\ \A i, j \in Species :
              i < j => ~(/\ emitted.amounts[i] > MatchedDesign.min_stems[i]
                         /\ emitted.amounts[j] < MatchedGrabbed[j])
        /\ emitted.amounts =
              LowestFirst(MatchedGrabbed, reduce_sum(MatchedGrabbed) - MatchedDesign.total, 0)

\* an excess was returned from a species while a higher species, with room
\* to give back as well, kept all that was grabbed
C16_Witness ==
    /\ Matched
    /\ \E i, j \in Species :
          /\ i < j
          /\ emitted.amounts[i] < MatchedGrabbed[i]
          /\ emitted.amounts[j] = MatchedGrabbed[j]
          /\ MatchedGrabbed[j] > MatchedDesign.min_stems[j]

\* C19: every emitted bundle is for a design that is listed for, and names,
\* the species of the arriving stem, and holds at least one stem of that
\* species.
C19_HoldsArrivingSpecies ==
    Matched =>
        /\ \E k \in 1 .. Len(lines[last.size].designs_per_stem[last.stem_index]) :
              lines[last.size].designs_per_stem[last.stem_index][k] = last.matched
        /\ MatchedDesign.min_stems[last.stem_index] >= 1
        /\ emitted.amounts[last.stem_index] >= 1

\* the arriving species is the first the excess-return loop visits, an
\* excess was returned, and the bundle holds other species too
C19_Witness ==
    /\ Matched
    /\ last.stem_index = 0
    /\ reduce_sum(MatchedGrabbed) > MatchedDesign.total
    /\ \E s \in Species : s # 0 /\ emitted.amounts[s] > 0

\* ------------------------------------ more properties of one design line
\* the design accepted from the design line read
Accepted == lines[probe.size].designs[1]

\* C17: for the design accepted from a design line and every species s,
\* min_stems[s] <= max_stems[s], and min_stems[s] > 0 exactly when the line
\* names s.
C17_MinWithinMax ==
    last.op = "pushed" =>
        \A s \in Species :
            /\ Accepted.min_stems[s] <= Accepted.max_stems[s]
            /\ Accepted.min_stems[s] > 0 <=> s \in RawNamed(probe)

\* C17, its second half: the design accepted from a design line has a
\* positive minimum of exactly the species the line names.
C17_NamedIffPositiveMin ==
    last.op = "pushed" =>
        \A s \in Species : Accepted.min_stems[s] > 0 <=> s \in RawNamed(probe)

\* the stock vectors a design is tested against
Stocks == [Species -> 0 .. MaxRawMax]

\* a bundle valid for the design can be drawn from the stock
Drawable(stock, design) ==
    \E b \in DesignBundles(design) : \A s \in Species : b[s] <= stock[s]

\* C18: the design accepted from a design line passes the two tests of the
\* scan on a stock exactly when a count vector within the design's minima
\* and maxima, within the stock and of the design's total exists.
C18_GreedyTestExact ==
    last.op = "pushed" =>
        \A stock \in Stocks : Satisfiable(stock, Accepted) <=> Drawable(stock, Accepted)

\* a design of two species or more with a maximum above its minimum was
\* accepted; it passes on a stock with an excess and fails on another that
\* holds its total but lacks a species
C18_Witness ==
    /\ last.op = "pushed"
    /\ Len(probe.stems) >= 2
    /\ \E s \in Species : Accepted.max_stems[s] > Accepted.min_stems[s]
    /\ \E stock \in Stocks :
          /\ Satisfiable(stock, Accepted)
          /\ reduce_sum(simd_min(stock, Accepted.max_stems)) > Accepted.total
    /\ \E stock \in Stocks :
          /\ ~Satisfiable(stock, Accepted)
          /\ reduce_sum(simd_min(stock, Accepted.max_stems)) >= Accepted.total

\* C20: reading a design line never takes the 16-bit arithmetic of from_str
\* out of 0..65535: neither the cap 1 + total - unique_stem_count nor the
\* sum_max - stem_max of the min pass wraps, and the run does not abort.
C20_NoUnderflow ==
    last.op # "new" =>
        /\ ~CapOverflows(probe.total, Len(probe.stems))
        /\ ~OthersOverflows(from_str(probe).max_stems)
        /\ phase # "panicked"

\* C20, its second half: the subtraction of the min pass stays within
\* 0..65535 for every design line, whatever the cap came to.
C20_MinPassNoUnderflow ==
    last.op # "new" => ~OthersOverflows(from_str(probe).max_stems)

====
